---- MODULE Spec2Model ----
(***************************************************************************)
(* Schema indexing and retrieval of mysql-mcp.                             *)
(*                                                                         *)
(* The startup pass (main.go initVectorDB), the schema fetcher             *)
(* (service/mysql.go GetAllTableSchema), the periodic pass                 *)
(* (service/util.go UpdateSchema) and the dedup ledger (SaveToSQLite,      *)
(* CheckRowExist) are modelled as communicating processes, the two tool    *)
(* handlers (main.go executeSql, getCanUseTable) as one step each, and     *)
(* service/mysql.go Execute as an operator on character sequences.         *)
(* A table is identified by its position 1..n in the answer of            *)
(* "show tables"; its name and its schema text (the answer of              *)
(* "show create table") are both identified with that number.              *)
(***************************************************************************)
EXTENDS Integers, Sequences, FiniteSets, TLC

\* ------------------------------------------------------------------ bounds
\* Tables in the relational source during a startup pass.
StartupTables == 3
\* Tables in the relational source when the worker pool is exercised: more than maxWorkers.
PoolTables == 6
\* Tables the relational source can hold during the periodic passes.
PeriodicTables == 3
\* Calls to an external service (MySQL, embedding API, Milvus, SQLite) that
\* may fail in one run.
MaxFaults == 2
\* Tables the relational source holds beyond the capacity of the schema channel
\* when a pass over a large source is followed.
MoreTables == 1

\* ------------------------------------------------------- program constants
\* const maxWorkers = 5; semaphore := make(chan struct{}, maxWorkers)
maxWorkers == 5
\* schemaChan := make(chan string, 10); tableCh := make(chan ..., 10)
chanCap == 10

Max(a, b) == IF a > b THEN a ELSE b
MaxTables == Max(chanCap + MoreTables, Max(PoolTables, Max(StartupTables, PeriodicTables)))
Tables == 1..MaxTables

VARIABLES
    \* state that outlives the process
    coll,          \* the Milvus collection: "Absent", "Created", "IndexBuilding",
                   \* "Indexed", "Loading", "Loaded"
    vdb,           \* vdb[t]: number of records of the collection holding t's schema
    ledger,        \* names in the SQLite table mysql_tables
    live,          \* the relational source holds the tables 1..live
    \* the process
    ctxDone,       \* the root context of main is cancelled
    workCancelled, \* workCancel() of initVectorDB has run
    mpc,           \* where main / initVectorDB stands
    held,          \* the schema initVectorDB received and has not dispatched (0: none)
    w,             \* w[t]: the worker goroutine of schema t
    \* GetAllTableSchema and its channel
    fpc, flist, fidx, ch, chClosed,
    \* UpdateSchema
    upc,           \* where UpdateSchema stands
    cur,           \* the table of the current loop iteration (0: none)
    mutexLocked,   \* updateMutex is held
    tickPending,   \* ticker.C (capacity 1) holds a tick
    sqlite,        \* sqliteOnce: "uninit", "ok", "err"
    \* the tool server
    srv,           \* the request handled last and what its handler did
    ret,           \* the library function called last, its arguments and its results
    once,          \* sqliteOnce, sqliteInitErr, sqliteDB and the goroutines in InitSQLite
    \* bookkeeping
    faults,        \* failures injected so far
    hist           \* what has been observed (calls issued, results returned)

procVars   == <<ctxDone, workCancelled, mpc, held, w>>
fetchVars  == <<fpc, flist, fidx, ch, chClosed>>
updVars    == <<upc, cur, mutexLocked, tickPending, sqlite>>
storeVars  == <<coll, vdb, ledger, live>>
vars == <<coll, vdb, ledger, live, ctxDone, workCancelled, mpc, held, w,
          fpc, flist, fidx, ch, chClosed, upc, cur, mutexLocked, tickPending,
          sqlite, srv, ret, once, faults, hist>>

\* ------------------------------------------------------------- helpers
\* An external call returns ok, or fails while the fault budget lasts.
MayReturn(ok) == ok \/ faults < MaxFaults
Charge(ok) == IF ok THEN faults ELSE faults + 1

\* The schema text of table t as "show create table" returns it: never empty, and
\* different for every table.
SchemaTexts ==
    <<"CREATE TABLE t1", "CREATE TABLE t2", "CREATE TABLE t3", "CREATE TABLE t4",
      "CREATE TABLE t5", "CREATE TABLE t6", "CREATE TABLE t7", "CREATE TABLE t8",
      "CREATE TABLE t9", "CREATE TABLE t10", "CREATE TABLE t11", "CREATE TABLE t12">>
SchemaOf(t) == SchemaTexts[t]

Running == {t \in Tables : w[t] \in {"spawned", "embedding", "inserting"}}

\* workCtx, a child of the root context, cancelled as well by the deferred workCancel.
WorkCtxDone == ctxDone \/ workCancelled

\* The context GetAllTableSchema was given: workCtx from initVectorDB,
\* context.Background() from UpdateSchema.
FetchCtxDone == IF upc = "fetch" THEN FALSE ELSE WorkCtxDone

\* check, result: what CheckCollection and initVectorDB returned; created, listed:
\* a collection-creation RPC, the "show tables" query was issued; queried, emitted:
\* tables whose definition was queried, sent to the channel; embedCalls, insertCalls:
\* tables EmbedQuery, SaveToVDB was called for; embedFailed, insertOK: tables whose
\* call returned an error, success; skipped: workers that returned on workCtx.Done();
\* ledger0: the ledger when the pass began; ledgerFailed: tables whose ledger lookup
\* or insert failed; pass: "none", "running", "complete", "aborted";
\* lastTick: "none", "ran", "skipped"; overlap: the tick in ticker.C fired during a
\* running pass; lastOverlap: so did the tick handled last; tickEmbeds: tables
\* EmbedQuery was called for since the last tick was taken from ticker.C;
\* fetchFailed: tables whose definition query or Scan failed; insertAborted: tables
\* whose SaveToVDB failed on the cancelled workCtx; failed: the startup step that
\* returned an error ("none", "db", "milvus", "check", "create", "cancelled").
HistInit == [check |-> "none", result |-> "none", created |-> FALSE, listed |-> FALSE,
             queried |-> {}, emitted |-> {}, embedCalls |-> {}, embedFailed |-> {},
             insertCalls |-> {}, insertOK |-> {}, skipped |-> {},
             fetchFailed |-> {}, insertAborted |-> {}, failed |-> "none",
             ledger0 |-> {}, ledgerFailed |-> {}, pass |-> "none", lastTick |-> "none",
             overlap |-> FALSE, lastOverlap |-> FALSE, tickEmbeds |-> {}]

Note(f, v) == [hist EXCEPT ![f] = v]
NoteIn(f, t) == [hist EXCEPT ![f] = @ \cup {t}]

\* Goroutines run until the process exits (logger.Fatalf ends in os.Exit).
Alive == mpc # "exited"

\* ------------------------------------------------ GetAllTableSchema
\* The function returns and leaves the channel open.
Close_NotClosed == /\ fpc' = "done"
                   /\ UNCHANGED chClosed

\* defer close(ch)
Close == /\ chClosed' = TRUE
         /\ fpc' = "done"

\* (db is not nil: main calls initDB first.)
\* rows, err := db.QueryContext(ctx, "show tables"); tables, err := scanTables(rows)
GetAllTableSchema_List ==
    /\ Alive
    /\ fpc = "list"
    /\ \E ok \in BOOLEAN :
         /\ MayReturn(ok)
         /\ faults' = Charge(ok)
         /\ IF ok /\ ~FetchCtxDone
              THEN /\ flist' = [i \in 1..live |-> i]
                   /\ fidx' = 1
                   /\ fpc' = "loop"
                   /\ UNCHANGED chClosed
              ELSE /\ Close
                   /\ UNCHANGED <<flist, fidx>>
    /\ hist' = Note("listed", TRUE)
    /\ UNCHANGED <<srv, ret, once, ch, storeVars, procVars, updVars>>

\* The loop never looks at ctx.Done().
LoopCtxDone_Unchecked == FALSE

\* select { case <-ctx.Done(): logger.Infof(...); return; default: ... } at the top
\* of every iteration
LoopCtxDone == FetchCtxDone

\* The first failing table ends the enumeration.
SkipTable_Return ==
    /\ Close
    /\ UNCHANGED fidx

\* if err != nil { logger.Errorf(...); continue }, and the return out of the
\* closure on a failed Scan: the loop goes on with the next table.
SkipTable ==
    /\ fpc' = "loop"
    /\ fidx' = fidx + 1
    /\ UNCHANGED chClosed

\* for _, table := range tables { select { case <-ctx.Done(): return; default: query } }
\* A failed query, an empty answer and a failed Scan all skip the table.
GetAllTableSchema_Loop ==
    /\ Alive
    /\ fpc = "loop"
    /\ IF fidx > Len(flist)
         THEN /\ Close
              /\ UNCHANGED <<fidx, faults, hist>>
         ELSE IF LoopCtxDone
         THEN /\ Close
              /\ UNCHANGED <<fidx, faults, hist>>
         ELSE \E ok \in BOOLEAN :
                /\ MayReturn(ok)
                /\ faults' = Charge(ok)
                /\ IF ok THEN /\ fpc' = "send"
                              /\ hist' = NoteIn("queried", flist[fidx])
                              /\ UNCHANGED <<fidx, chClosed>>
                         ELSE /\ SkipTable
                              /\ hist' = [hist EXCEPT !.queried = @ \cup {flist[fidx]},
                                                      !.fetchFailed = @ \cup {flist[fidx]}]
    /\ UNCHANGED <<srv, ret, once, flist, ch, storeVars, procVars, updVars>>

\* select { case ch <- tableMap: ; case <-ctx.Done(): return }
GetAllTableSchema_Send ==
    /\ Alive
    /\ fpc = "send"
    /\ \/ /\ Len(ch) < chanCap
          /\ ch' = Append(ch, flist[fidx])
          /\ fidx' = fidx + 1
          /\ fpc' = "loop"
          /\ hist' = NoteIn("emitted", flist[fidx])
          /\ UNCHANGED chClosed
       \/ /\ FetchCtxDone
          /\ Close
          /\ UNCHANGED <<ch, fidx, hist>>
    /\ UNCHANGED <<srv, ret, once, flist, faults, storeVars, procVars, updVars>>

\* ------------------------------------------------ main
\* The error of a startup step is logged and main goes on to start the server.
OnStartupError_Ignored == "serving"

\* if err != nil { logger.Fatalf(...) } after initDB, initMilvus and initVectorDB
OnStartupError == "fatal"

\* if err = initDB(dsn); err != nil { logger.Fatalf(...) }
\* (sql.Open and db.PingContext under a 10 s timeout of context.Background())
initDB ==
    /\ mpc = "initdb"
    /\ \E ok \in BOOLEAN :
         /\ MayReturn(ok)
         /\ faults' = Charge(ok)
         /\ IF ok
              THEN /\ mpc' = "initmilvus"
                   /\ UNCHANGED hist
              ELSE /\ mpc' = OnStartupError
                   /\ hist' = [hist EXCEPT !.failed = "db", !.result = "err"]
    /\ UNCHANGED <<srv, ret, once, storeVars, ctxDone, workCancelled, held, w, fetchVars, updVars>>

\* if err = initMilvus(ctx); err != nil { logger.Fatalf(...) }
\* (milvusclient.New under a 10 s timeout of the root context)
initMilvus ==
    /\ mpc = "initmilvus"
    /\ \E ok \in BOOLEAN :
         /\ MayReturn(ok)
         /\ faults' = Charge(ok)
         /\ IF ok /\ ~ctxDone
              THEN /\ mpc' = "check"
                   /\ UNCHANGED hist
              ELSE /\ mpc' = OnStartupError
                   /\ hist' = [hist EXCEPT !.failed = "milvus", !.result = "err"]
    /\ UNCHANGED <<srv, ret, once, storeVars, ctxDone, workCancelled, held, w, fetchVars, updVars>>

\* ------------------------------------------------ CreateCollection
\* One RPC of service.CreateCollection: on success the collection moves on and the
\* function continues at `next`; on an error the function returns it, and
\* initVectorDB returns "CreateCollection failed", which main turns into Fatalf.
CreateStep(at, from, to, next) ==
    /\ mpc = at
    /\ \E ok \in BOOLEAN :
         /\ MayReturn(ok)
         /\ faults' = Charge(ok)
         /\ IF ok /\ ~ctxDone /\ coll = from
              THEN /\ coll' = to
                   /\ mpc' = next
                   /\ hist' = Note("created", TRUE)
              ELSE /\ mpc' = OnStartupError
                   /\ hist' = [hist EXCEPT !.created = TRUE, !.result = "err",
                                           !.failed = "create"]
                   /\ UNCHANGED coll
    /\ UNCHANGED <<srv, ret, once, vdb, ledger, live, ctxDone, workCancelled, held, w, fetchVars, updVars>>

\* cli.CreateCollection(ctx, NewCreateCollectionOption(collectionName, schema))
CreateCollection_Create == CreateStep("cc_create", "Absent", "Created", "cc_index")
\* indexTask, err := cli.CreateIndex(ctx, ...)
CreateCollection_Index == CreateStep("cc_index", "Created", "IndexBuilding", "cc_await")
\* err = indexTask.Await(ctx)
CreateCollection_AwaitIndex == CreateStep("cc_await", "IndexBuilding", "Indexed", "cc_load")
\* loadTask, err := cli.LoadCollection(ctx, ...)
CreateCollection_Load == CreateStep("cc_load", "Indexed", "Loading", "cc_loadawait")

\* The load is not awaited: CreateCollection returns success while the collection
\* is still loading, and a failed load is never seen.
CreateCollection_AwaitLoad_NotAwaited ==
    /\ mpc = "cc_loadawait"
    /\ mpc' = "recv"
    /\ fpc' = "list"
    /\ UNCHANGED <<coll, hist, faults>>
    /\ UNCHANGED <<srv, ret, once, vdb, ledger, live, ctxDone, workCancelled, held, w,
                   flist, fidx, ch, chClosed, updVars>>

\* err = loadTask.Await(ctx); back in initVectorDB: schemaChan, workCtx and
\* go func() { service.GetAllTableSchema(workCtx, db, schemaChan) }()
CreateCollection_AwaitLoad ==
    /\ mpc = "cc_loadawait"
    /\ \E ok \in BOOLEAN :
         /\ MayReturn(ok)
         /\ faults' = Charge(ok)
         /\ IF ok /\ ~ctxDone /\ coll = "Loading"
              THEN /\ coll' = "Loaded"
                   /\ mpc' = "recv"
                   /\ fpc' = "list"
                   /\ UNCHANGED hist
              ELSE /\ mpc' = OnStartupError
                   /\ hist' = [hist EXCEPT !.result = "err", !.failed = "create"]
                   /\ UNCHANGED <<coll, fpc>>
    /\ UNCHANGED <<srv, ret, once, vdb, ledger, live, ctxDone, workCancelled, held, w,
                   flist, fidx, ch, chClosed, updVars>>

\* ------------------------------------------------ initVectorDB
\* The existence check ignored: the collection is created and indexed on every start.
NeedsIndexing_Always(hasCollection) == TRUE

\* if !hasCollection { ... }
NeedsIndexing(hasCollection) == ~hasCollection

\* hasCollection, err := service.CheckCollection(ctx, cli)
CheckCollection ==
    /\ mpc = "check"
    /\ \E ok \in BOOLEAN :
         /\ MayReturn(ok)
         /\ faults' = Charge(ok)
         /\ IF ~ok \/ ctxDone
              THEN /\ mpc' = OnStartupError
                   /\ hist' = [hist EXCEPT !.check = "err", !.result = "err",
                                           !.failed = "check"]
              ELSE IF NeedsIndexing(coll # "Absent")
              THEN /\ mpc' = "cc_create"
                   /\ hist' = Note("check", IF coll # "Absent" THEN "has" ELSE "absent")
              ELSE /\ mpc' = "serving"
                   /\ hist' = [hist EXCEPT !.check = IF coll # "Absent" THEN "has" ELSE "absent",
                                           !.result = "ok"]
    /\ UNCHANGED <<srv, ret, once, storeVars, ctxDone, workCancelled, held, w, fetchVars, updVars>>

\* for schema := range schemaChan { select { case <-ctx.Done(): return ctx.Err()
\*                                           default: if schema == "" { continue } ...
initVectorDB_Recv ==
    /\ mpc = "recv"
    /\ \/ /\ ch # << >>
          /\ ch' = Tail(ch)
          /\ IF ctxDone
               THEN /\ mpc' = OnStartupError
                    /\ workCancelled' = TRUE
                    /\ hist' = [hist EXCEPT !.result = "err", !.failed = "cancelled"]
                    /\ UNCHANGED held
               ELSE IF SchemaOf(Head(ch)) = ""
               THEN UNCHANGED <<mpc, held, workCancelled, hist>>
               ELSE /\ mpc' = "acquire"
                    /\ held' = Head(ch)
                    /\ UNCHANGED <<workCancelled, hist>>
       \/ /\ ch = << >>
          /\ chClosed
          /\ mpc' = "wait"
          /\ UNCHANGED <<ch, held, workCancelled, hist>>
    /\ UNCHANGED <<srv, ret, once, storeVars, ctxDone, w, fpc, flist, fidx, chClosed, updVars, faults>>

\* No semaphore: a goroutine is started for every schema received.
SemaphoreFree_Unbounded == TRUE

\* semaphore <- struct{}{} blocks while maxWorkers goroutines hold a slot
SemaphoreFree == Cardinality(Running) < maxWorkers

\* semaphore <- struct{}{}; wg.Add(1); go func(s string) { ... }(schema)
initVectorDB_Dispatch ==
    /\ mpc = "acquire"
    /\ SemaphoreFree
    /\ w' = [w EXCEPT ![held] = "spawned"]
    /\ held' = 0
    /\ mpc' = "recv"
    /\ UNCHANGED <<srv, ret, once, storeVars, ctxDone, workCancelled, fetchVars, updVars, faults, hist>>

\* No wg.Wait(): initVectorDB returns as soon as the channel is drained.
WaitGroupDone_NoWait == TRUE

\* wg.Wait() returns when every worker has run its deferred wg.Done()
WaitGroupDone == Running = {}

\* wg.Wait(); logger.Info(...); return nil; then main builds and starts the server
initVectorDB_Wait ==
    /\ mpc = "wait"
    /\ WaitGroupDone
    /\ mpc' = "serving"
    /\ workCancelled' = TRUE
    /\ hist' = Note("result", "ok")
    /\ UNCHANGED <<srv, ret, once, storeVars, ctxDone, held, w, fetchVars, updVars, faults>>

\* if err := initVectorDB(ctx, cli); err != nil { logger.Fatalf(...) }
Fatalf ==
    /\ mpc = "fatal"
    /\ mpc' = "exited"
    /\ UNCHANGED <<srv, ret, once, storeVars, ctxDone, workCancelled, held, w, fetchVars, updVars,
                   faults, hist>>

\* <-sigCh; cancel()
Cancel ==
    /\ Alive
    /\ ~ctxDone
    /\ ctxDone' = TRUE
    /\ UNCHANGED <<srv, ret, once, storeVars, workCancelled, mpc, held, w, fetchVars, updVars,
                   faults, hist>>

\* ------------------------------------------------ the worker goroutine
\* The goroutine calls EmbedQuery without looking at workCtx.
WorkerCtxDone_Unchecked == FALSE

\* select { case <-workCtx.Done(): return; default: } at the start of the goroutine
WorkerCtxDone == WorkCtxDone

\* EmbedQuery: ctx, cancel := context.WithTimeout(context.Background(), 10*time.Second);
\* the request is bound to this context, which no signal cancels.
EmbedCtxDone == FALSE

\* select { case <-workCtx.Done(): return; default: }; service.EmbedQuery(s) is called
Worker_Start(t) ==
    /\ Alive
    /\ w[t] = "spawned"
    /\ IF WorkerCtxDone
         THEN /\ w' = [w EXCEPT ![t] = "done"]
              /\ hist' = NoteIn("skipped", t)
         ELSE /\ w' = [w EXCEPT ![t] = "embedding"]
              /\ hist' = NoteIn("embedCalls", t)
    /\ UNCHANGED <<srv, ret, once, storeVars, ctxDone, workCancelled, mpc, held, fetchVars, updVars, faults>>

\* vectors, err := service.EmbedQuery(s); if err != nil { log; return };
\* service.SaveToVDB(workCtx, ...) is called
Worker_Embedded(t) ==
    /\ Alive
    /\ w[t] = "embedding"
    /\ \E ok \in BOOLEAN :
         /\ MayReturn(ok)
         /\ faults' = Charge(ok)
         /\ IF ok /\ ~EmbedCtxDone
              THEN /\ w' = [w EXCEPT ![t] = "inserting"]
                   /\ hist' = NoteIn("insertCalls", t)
              ELSE /\ w' = [w EXCEPT ![t] = "done"]
                   /\ hist' = NoteIn("embedFailed", t)
    /\ UNCHANGED <<srv, ret, once, storeVars, ctxDone, workCancelled, mpc, held, fetchVars, updVars>>

\* err = service.SaveToVDB(workCtx, cli, []string{s}, [][]float32{vectors});
\* the deferred <-semaphore and wg.Done() run
Worker_Saved(t) ==
    /\ Alive
    /\ w[t] = "inserting"
    /\ \E ok \in BOOLEAN :
         /\ MayReturn(ok)
         /\ faults' = Charge(ok)
         /\ IF ok /\ ~WorkCtxDone /\ coll # "Absent"
              THEN /\ vdb' = [vdb EXCEPT ![t] = @ + 1]
                   /\ hist' = NoteIn("insertOK", t)
              ELSE IF ok /\ WorkCtxDone
              THEN /\ hist' = NoteIn("insertAborted", t)
                   /\ UNCHANGED vdb
              ELSE UNCHANGED <<vdb, hist>>
    /\ w' = [w EXCEPT ![t] = "done"]
    /\ UNCHANGED <<srv, ret, once, coll, ledger, live, ctxDone, workCancelled, mpc, held, fetchVars, updVars>>

\* ------------------------------------------------ the dedup ledger
Range(q) == {q[i] : i \in DOMAIN q}

\* sqliteOnce.Do(...): the first call opens the store and creates the table; its
\* outcome is kept in sqliteInitErr and returned by every later call.
InitSQLite(state, ok) == IF state = "uninit" THEN (IF ok THEN "ok" ELSE "err") ELSE state

\* CheckRowExist(row): the empty list when the store failed to initialise, when
\* row is empty and when the SELECT fails; else the names of row not among those
\* scanned from the answer (a recorded name whose rows.Scan fails is skipped by
\* continue, so it is not among them).
CheckRowExist(row, led, state, queryOK, scanFailed) ==
    IF state # "ok" THEN << >>
    ELSE IF Len(row) = 0 THEN << >>
    ELSE IF ~queryOK THEN << >>
    ELSE LET existingTables == (led \cap Range(row)) \ scanFailed
         IN  SelectSeq(row, LAMBDA r : r \notin existingTables)

\* SaveToSQLite(rows): one INSERT of all rows; table_name is UNIQUE, so the statement
\* fails, and inserts nothing, when a name is already recorded or given twice.
SaveToSQLiteOK(rows, led, state, execOK) ==
    /\ state = "ok"
    /\ \/ Len(rows) = 0
       \/ /\ execOK
          /\ Range(rows) \cap led = {}
          /\ Cardinality(Range(rows)) = Len(rows)

SaveToSQLite(rows, led, state, execOK) ==
    IF SaveToSQLiteOK(rows, led, state, execOK) THEN led \cup Range(rows) ELSE led

\* ------------------------------------------------ UpdateSchema
PassRunning == upc \in {"fetch", "range", "check", "save", "embed", "insert"}

\* time.NewTicker(5 * time.Minute): the ticker puts a tick in ticker.C, whose
\* capacity is 1, and drops it when the channel is full; ticker.Stop() on return.
Tick ==
    /\ upc \notin {"off", "returned"}
    /\ ~tickPending
    /\ tickPending' = TRUE
    /\ hist' = Note("overlap", PassRunning)
    /\ UNCHANGED <<srv, ret, once, storeVars, procVars, fetchVars, upc, cur, mutexLocked, sqlite, faults>>

\* A table is created in the relational source.
CreateTable ==
    /\ live < PeriodicTables
    /\ live' = live + 1
    /\ UNCHANGED <<srv, ret, once, coll, vdb, ledger, procVars, fetchVars, updVars, faults, hist>>

\* The mutex released at the end of the previous pass: TryLock always succeeds.
TryLock_Always == TRUE

\* updateMutex.TryLock()
TryLock == ~mutexLocked

\* for range ticker.C { if !updateMutex.TryLock() { warn; continue }
\*   defer updateMutex.Unlock(); tableCh := make(...); GetAllTableSchema(...) is called
UpdateSchema_Tick ==
    /\ upc = "wait"
    /\ tickPending
    /\ tickPending' = FALSE
    /\ IF TryLock
         THEN /\ mutexLocked' = TRUE
              /\ upc' = "fetch"
              /\ fpc' = "list"
              /\ flist' = << >>
              /\ fidx' = 0
              /\ ch' = << >>
              /\ chClosed' = FALSE
              /\ hist' = [hist EXCEPT !.lastTick = "ran", !.lastOverlap = hist.overlap,
                                      !.overlap = FALSE, !.tickEmbeds = {},
                                      !.pass = "running", !.ledger0 = ledger,
                                      !.listed = FALSE, !.queried = {}, !.emitted = {},
                                      !.embedCalls = {}, !.embedFailed = {},
                                      !.insertCalls = {}, !.insertOK = {},
                                      !.ledgerFailed = {}, !.fetchFailed = {}]
         ELSE /\ hist' = [hist EXCEPT !.lastTick = "skipped", !.lastOverlap = hist.overlap,
                                      !.overlap = FALSE, !.tickEmbeds = {}]
              /\ UNCHANGED <<mutexLocked, upc, fetchVars>>
    /\ UNCHANGED <<srv, ret, once, storeVars, procVars, cur, sqlite, faults>>

\* GetAllTableSchema(context.Background(), db, tableCh) has returned
UpdateSchema_Fetched ==
    /\ upc = "fetch"
    /\ fpc = "done"
    /\ upc' = "range"
    /\ UNCHANGED <<srv, ret, once, storeVars, procVars, fetchVars, cur, mutexLocked, tickPending, sqlite,
                   faults, hist>>

\* for tableMap := range tableCh { for tableName, schema := range tableMap {
UpdateSchema_Range ==
    /\ upc = "range"
    /\ IF ch # << >>
         THEN /\ cur' = Head(ch)
              /\ ch' = Tail(ch)
              /\ upc' = "check"
              /\ UNCHANGED hist
         ELSE /\ chClosed
              /\ cur' = 0
              /\ upc' = "wait"
              /\ hist' = Note("pass", "complete")
              /\ UNCHANGED ch
    /\ UNCHANGED <<srv, ret, once, storeVars, procVars, fpc, flist, fidx, chClosed, mutexLocked,
                   tickPending, sqlite, faults>>

\* notExistTables := CheckRowExist([]string{tableName}); if len(notExistTables) > 0 {
UpdateSchema_Check ==
    /\ upc = "check"
    /\ \E initOK \in BOOLEAN, queryOK \in BOOLEAN, scanOK \in BOOLEAN :
         /\ initOK \/ sqlite = "uninit"
         /\ initOK \/ queryOK
         /\ scanOK \/ (queryOK /\ InitSQLite(sqlite, initOK) = "ok" /\ cur \in ledger)
         /\ MayReturn(initOK /\ queryOK /\ scanOK)
         /\ faults' = Charge(initOK /\ queryOK /\ scanOK)
         /\ sqlite' = InitSQLite(sqlite, initOK)
         /\ upc' = IF Len(CheckRowExist(<<cur>>, ledger, sqlite', queryOK,
                                        IF scanOK THEN {} ELSE {cur})) > 0
                     THEN "save" ELSE "range"
         /\ hist' = IF sqlite' = "ok" /\ queryOK /\ scanOK
                      THEN hist ELSE NoteIn("ledgerFailed", cur)
    /\ UNCHANGED <<srv, ret, once, storeVars, procVars, fetchVars, cur, mutexLocked, tickPending>>

\* _, err := SaveToSQLite(notExistTables); if err != nil { log; continue }
UpdateSchema_Save ==
    /\ upc = "save"
    /\ \E execOK \in BOOLEAN :
         /\ MayReturn(execOK)
         /\ faults' = Charge(execOK)
         /\ ledger' = SaveToSQLite(<<cur>>, ledger, sqlite, execOK)
         /\ IF SaveToSQLiteOK(<<cur>>, ledger, sqlite, execOK)
              THEN /\ upc' = "embed"
                   /\ UNCHANGED hist
              ELSE /\ upc' = "range"
                   /\ hist' = NoteIn("ledgerFailed", cur)
    /\ UNCHANGED <<srv, ret, once, coll, vdb, live, procVars, fetchVars, cur, mutexLocked, tickPending, sqlite>>

\* vectors, err := EmbedQuery(schema); if err != nil { log; return }
\* (the return runs the deferred updateMutex.Unlock() and ticker.Stop())
UpdateSchema_Embed ==
    /\ upc = "embed"
    /\ \E ok \in BOOLEAN :
         /\ MayReturn(ok)
         /\ faults' = Charge(ok)
         /\ IF ok
              THEN /\ upc' = "insert"
                   /\ hist' = [hist EXCEPT !.embedCalls = @ \cup {cur},
                                           !.tickEmbeds = @ \cup {cur},
                                           !.insertCalls = @ \cup {cur}]
                   /\ UNCHANGED <<mutexLocked, tickPending>>
              ELSE /\ upc' = "returned"
                   /\ mutexLocked' = FALSE
                   /\ tickPending' = FALSE
                   /\ hist' = [hist EXCEPT !.embedCalls = @ \cup {cur},
                                           !.tickEmbeds = @ \cup {cur},
                                           !.embedFailed = @ \cup {cur},
                                           !.pass = "aborted"]
    /\ UNCHANGED <<srv, ret, once, storeVars, procVars, fetchVars, cur, sqlite>>

\* err = SaveToVDB(context.Background(), cli, ...); if err != nil { log }
UpdateSchema_Insert ==
    /\ upc = "insert"
    /\ \E ok \in BOOLEAN :
         /\ MayReturn(ok)
         /\ faults' = Charge(ok)
         /\ IF ok /\ coll # "Absent"
              THEN /\ vdb' = [vdb EXCEPT ![cur] = @ + 1]
                   /\ hist' = NoteIn("insertOK", cur)
              ELSE UNCHANGED <<vdb, hist>>
    /\ upc' = "range"
    /\ UNCHANGED <<srv, ret, once, coll, ledger, live, procVars, fetchVars, cur, mutexLocked, tickPending, sqlite>>

\* ------------------------------------------------ the process start
\* ------------------------------------------------ the tool server
\* A Go string is the sequence of its characters.
UpperCase == <<"A", "B", "C", "D", "E", "F", "G", "H", "I", "J", "K", "L", "M",
              "N", "O", "P", "Q", "R", "S", "T", "U", "V", "W", "X", "Y", "Z">>
LowerCase == <<"a", "b", "c", "d", "e", "f", "g", "h", "i", "j", "k", "l", "m",
              "n", "o", "p", "q", "r", "s", "t", "u", "v", "w", "x", "y", "z">>

\* strings.ToLower
ToLowerChar(c) ==
    IF \E i \in DOMAIN UpperCase : UpperCase[i] = c
      THEN LowerCase[CHOOSE i \in DOMAIN UpperCase : UpperCase[i] = c]
      ELSE c
ToLower(s) == [i \in 1..Len(s) |-> ToLowerChar(s[i])]

\* unicode.IsSpace
IsSpace(c) == c \in {" ", "\t", "\n", "\r", "\f"}

RECURSIVE TrimLeft(_)
TrimLeft(s) == IF s = << >> \/ ~IsSpace(Head(s)) THEN s ELSE TrimLeft(Tail(s))

RECURSIVE TrimRight(_)
TrimRight(s) ==
    IF s = << >> \/ ~IsSpace(s[Len(s)]) THEN s ELSE TrimRight(SubSeq(s, 1, Len(s) - 1))

\* strings.TrimSpace
TrimSpace(s) == TrimRight(TrimLeft(s))

\* strings.HasPrefix
HasPrefix(s, prefix) == Len(s) >= Len(prefix) /\ SubSeq(s, 1, Len(prefix)) = prefix

\* The four prefixes Execute tests for.
ReadKeywords ==
    {<<"s", "e", "l", "e", "c", "t">>,
     <<"s", "h", "o", "w">>,
     <<"d", "e", "s", "c", "r", "i", "b", "e">>,
     <<"e", "x", "p", "l", "a", "i", "n">>}

\* The prefix is compared with the statement as written: SELECT is not a query.
IsQuery_CaseSensitive(sql) == \E kw \in ReadKeywords : HasPrefix(TrimSpace(sql), kw)

\* queryLower := strings.ToLower(strings.TrimSpace(sql))
\* isQuery := strings.HasPrefix(queryLower, "select") || ... "show" ... "describe" ... "explain"
IsQuery(sql) ==
    LET queryLower == ToLower(TrimSpace(sql))
    IN  \E kw \in ReadKeywords : HasPrefix(queryLower, kw)

\* The statements a request is made with.
Statements ==
    {<< >>,
     <<" ">>,
     <<"S", "E", "L", "E", "C", "T", " ", "1">>,
     <<" ", " ", "S", "e", "l", "e", "c", "t", " ", "1", " ">>,
     <<"\t", "s", "h", "o", "w">>,
     <<"D", "E", "S", "C", "R", "I", "B", "E", " ", "t">>,
     <<"e", "x", "p", "l", "a", "i", "n">>,
     <<"s", "e", "l", "e", "c">>,
     <<"s", "e", "l", "e", "c", "t", "x">>,
     <<"i", "n", "s", "e", "r", "t">>,
     <<"U", "P", "D", "A", "T", "E", " ", "t">>,
     <<"x", " ", "s", "h", "o", "w">>}

\* Values db.ExecContext's result can report.
MaxRowsAffected == 12
MaxInsertID == 3
RowsAffectedValues == {0, 1, MaxRowsAffected}
LastInsertIDs == {-1, 0, 1, MaxInsertID}

\* The column names rows.Columns() answers with: one column, two columns, and two
\* columns of the same name (SELECT a.id AS x, b.id AS x ...).
ColumnSets == {<<"id">>, <<"id", "name">>, <<"x", "x">>}

\* Column names in the order of their bytes, the order encoding/json writes map keys in.
ColumnOrder == <<"id", "name", "x">>

\* A value as the driver hands it to Scan: an int64, a []byte or nil.
Row1 == <<[kind |-> "int64", v |-> "1"], [kind |-> "bytes", v |-> "ann"]>>
Row2 == <<[kind |-> "int64", v |-> "2"], [kind |-> "nil", v |-> ""]>>

\* The rows a query of the given columns answers with: none, one or two.
RowSets(columns) ==
    LET n == Len(columns)
    IN  {<< >>, <<SubSeq(Row1, 1, n)>>, <<SubSeq(Row1, 1, n), SubSeq(Row2, 1, n)>>}

\* What the relational source does with a QueryContext: fail names the call that
\* returns an error ("none": no call fails), columns and rows are its answer.
QueryResults ==
    {[fail |-> f, columns |-> <<"id">>, rows |-> <<SubSeq(Row1, 1, 1)>>,
      rowsAffected |-> 0, lastInsertID |-> 0] : f \in {"query", "columns", "scan", "iter"}}
        \cup UNION {{[fail |-> "none", columns |-> c, rows |-> rs,
                       rowsAffected |-> 0, lastInsertID |-> 0] : rs \in RowSets(c)} :
                     c \in ColumnSets}

\* What the relational source does with an ExecContext: it fails, or answers with
\* a sql.Result reporting rowsAffected and lastInsertID.
ExecResults ==
    {[fail |-> "exec", columns |-> << >>, rows |-> << >>,
      rowsAffected |-> 0, lastInsertID |-> 0]}
        \cup [fail : {"none"}, columns : {<< >>}, rows : {<< >>},
              rowsAffected : RowsAffectedValues, lastInsertID : LastInsertIDs]

\* The relational source answers the call Execute makes for the statement.
DBResults(sql) == IF IsQuery(sql) THEN QueryResults ELSE ExecResults

NoDB == [fail |-> "none", columns |-> << >>, rows |-> << >>, rowsAffected |-> 0,
         lastInsertID |-> 0]

\* fmt.Sprintf("%d", n): a text is a sequence of pieces, a number gives one piece
\* per digit, after "-" when it is negative.
DigitChars == <<"0", "1", "2", "3", "4", "5", "6", "7", "8", "9">>

RECURSIVE Digits(_)
Digits(n) ==
    IF n < 10 THEN <<DigitChars[n + 1]>>
    ELSE Digits(n \div 10) \o <<DigitChars[(n % 10) + 1]>>

FormatInt(n) == IF n < 0 THEN <<"-">> \o Digits(-n) ELSE Digits(n)

\* switch v := (*val).(type) { case []byte: rowData[colName] = string(v)
\*                             default: rowData[colName] = *val }
Convert(cell) == IF cell.kind = "bytes" THEN [kind |-> "string", v |-> cell.v] ELSE cell

\* rowData := make(map[string]interface{}); for i, colName := range columns { ... }:
\* a map keyed by the column name, in which a later column of the same name
\* replaces the earlier one.
RowData(columns, row) ==
    [name \in Range(columns) |->
        LET i == CHOOSE i \in DOMAIN columns :
                     /\ columns[i] = name
                     /\ \A j \in DOMAIN columns : columns[j] = name => j <= i
        IN  Convert(row[i])]

\* encoding/json: a number as its digits, a string in quotes, nil as null, a
\* []byte as a base64 string.  A text is a sequence of pieces.
MarshalValue(cell) ==
    CASE cell.kind = "int64" -> <<cell.v>>
      [] cell.kind = "string" -> <<"\"", cell.v, "\"">>
      [] cell.kind = "nil" -> <<"null">>
      [] OTHER -> <<"\"", "base64", cell.v, "\"">>

RECURSIVE MarshalEntries(_, _)
MarshalEntries(m, keys) ==
    IF keys = << >> THEN << >>
    ELSE <<"\"", Head(keys), "\"", ":">> \o MarshalValue(m[Head(keys)])
            \o (IF Len(keys) > 1 THEN <<",">> ELSE << >>)
            \o MarshalEntries(m, Tail(keys))

\* A map is written as an object with its keys sorted.
MarshalObject(m) ==
    <<"{">> \o MarshalEntries(m, SelectSeq(ColumnOrder, LAMBDA k : k \in DOMAIN m))
           \o <<"}">>

RECURSIVE MarshalObjects(_)
MarshalObjects(resultSet) ==
    IF resultSet = << >> THEN << >>
    ELSE MarshalObject(Head(resultSet))
            \o (IF Len(resultSet) > 1 THEN <<",">> ELSE << >>)
            \o MarshalObjects(Tail(resultSet))

\* json.MarshalIndent(resultSet, "", "  "): resultSet is made non-nil, so no row
\* gives []; the white space of the indentation is left out.
MarshalIndent(resultSet) ==
    IF resultSet = << >> THEN <<"[]">> ELSE <<"[">> \o MarshalObjects(resultSet) \o <<"]">>

\* The suffix is added for the id 0 as well.
HasInsertID_NonNegative(lastInsertID) == lastInsertID >= 0

\* if lastInsertID > 0 { response += ... }
HasInsertID(lastInsertID) == lastInsertID > 0

\* response := fmt.Sprintf("Query executed successfully. Rows affected: %d", rowsAffected)
\* if lastInsertID > 0 { response += fmt.Sprintf(", Last insert ID: %d", lastInsertID) }
WriteResponse(rowsAffected, lastInsertID) ==
    LET response == <<"Query executed successfully. Rows affected: ">> \o FormatInt(rowsAffected)
    IN  IF HasInsertID(lastInsertID)
          THEN response \o <<", Last insert ID: ">> \o FormatInt(lastInsertID)
          ELSE response

\* service.Execute(ctx, db, sql) with db not nil: the relational calls it makes,
\* the error it returns ("": nil) and its text.
Execute(sql, r) ==
    IF IsQuery(sql)
      THEN IF r.fail = "query"
             THEN [calls |-> <<"QueryContext">>, err |-> "query execution failed", text |-> << >>]
           ELSE IF r.fail = "columns"
             THEN [calls |-> <<"QueryContext">>, err |-> "failed to get column names", text |-> << >>]
           ELSE IF r.fail = "scan" /\ r.rows # << >>
             THEN [calls |-> <<"QueryContext">>, err |-> "failed to scan row", text |-> << >>]
           ELSE IF r.fail = "iter"
             THEN [calls |-> <<"QueryContext">>, err |-> "error during row iteration", text |-> << >>]
           ELSE [calls |-> <<"QueryContext">>, err |-> "",
                 text |-> MarshalIndent([i \in 1..Len(r.rows) |->
                                            RowData(r.columns, r.rows[i])])]
      ELSE IF r.fail = "exec"
             THEN [calls |-> <<"ExecContext">>, err |-> "non-query execution failed", text |-> << >>]
           ELSE [calls |-> <<"ExecContext">>, err |-> "",
                 text |-> WriteResponse(r.rowsAffected, r.lastInsertID)]

\* request.Params.Arguments["query"]: no such key, a JSON number, or a string.
Arguments ==
    {[kind |-> "absent", str |-> << >>], [kind |-> "number", str |-> << >>]}
        \cup {[kind |-> "string", str |-> q] : q \in Statements}

\* No library function has been called.
NoCall == [fn |-> "none"]

NoRequest ==
    [tool |-> "none", arg |-> [kind |-> "absent", str |-> << >>], db |-> NoDB,
     calls |-> << >>, outcome |-> "none", err |-> "", text |-> << >>]

\* What a handler leaves behind: outcome is "result" (a CallToolResult and a nil
\* error), "error" (a nil result and an error) or "panic".
Handled(tool, arg, r, calls, outcome, err, text) ==
    [tool |-> tool, arg |-> arg, db |-> r, calls |-> calls, outcome |-> outcome,
     err |-> err, text |-> text]

\* The statement is handed to Execute whatever it is.
QueryIsEmpty_Unchecked(query) == FALSE

\* if query == "" { return nil, fmt.Errorf("query is empty") }
QueryIsEmpty(query) == query = << >>

\* query := request.Params.Arguments["query"].(string): the one-result form of the
\* type assertion panics when the value is nil or not a string; neither handler
\* nor main recovers, so the panic ends the process.
AssertString(arg) == arg.kind = "string"

\* func executeSql(ctx, request): the whole handler
executeSql ==
    /\ mpc = "serving"
    /\ \E arg \in Arguments : \E r \in DBResults(arg.str) :
         IF ~AssertString(arg)
           THEN /\ mpc' = "exited"
                /\ srv' = Handled("execute_sql", arg, NoDB, << >>, "panic",
                                  "interface conversion", << >>)
         ELSE IF QueryIsEmpty(arg.str)
           THEN /\ srv' = Handled("execute_sql", arg, NoDB, << >>, "error",
                                  "query is empty", << >>)
                /\ UNCHANGED mpc
         ELSE LET res == Execute(arg.str, r)
              IN  /\ srv' = Handled("execute_sql", arg, r, res.calls,
                                    IF res.err = "" THEN "result" ELSE "error",
                                    res.err, res.text)
                  /\ UNCHANGED mpc
    /\ UNCHANGED <<storeVars, ctxDone, workCancelled, held, w, fetchVars, updVars,
                   ret, once, faults, hist>>

\* ------------------------------------------------ SimilaritySearch
\* searchLimit = 3; InitMilvusConfig sets Config.SearchLimit to 3
searchLimit == 3

\* The records of the collection, one per insert: the tables they hold, in the
\* order given (nearest to the query vector first).
RECURSIVE RecordsBy(_, _)
RecordsBy(v, order) ==
    IF order = << >> THEN << >>
    ELSE [i \in 1..v[Head(order)] |-> Head(order)] \o RecordsBy(v, Tail(order))

\* The search answers with every record of the collection.
TopK_Unlimited(sorted) == sorted

\* cli.Search(ctx, NewSearchOption(Config.CollectionName, Config.SearchLimit, ...)):
\* Milvus answers with the Config.SearchLimit nearest records, nearest first.
TopK(sorted) == SubSeq(sorted, 1, IF Len(sorted) < searchLimit THEN Len(sorted) ELSE searchLimit)

\* What Milvus makes of a query vector: the tables nearest first.
Rankings == {[i \in 1..live |-> i], [i \in 1..live |-> live + 1 - i]}

\* What the embedding service and Milvus do with one request: embedOK, whether
\* EmbedQuery returns a vector; fail, the Milvus call that returns an error.
VDBResults ==
    {[embedOK |-> FALSE, fail |-> "none", order |-> [i \in 1..live |-> i]]}
        \cup {[embedOK |-> TRUE, fail |-> f, order |-> [i \in 1..live |-> i]] :
                 f \in {"stats", "load", "await", "search"}}
        \cup {[embedOK |-> TRUE, fail |-> "none", order |-> o] : o \in Rankings}

\* The collection is never loaded before the search.
RowCountIsZero_Never(v) == FALSE

\* stats["row_count"] == "0": the statistics report no row.
RowCountIsZero(v) == \A t \in DOMAIN v : v[t] = 0

\* The found records are written back to the collection.
SimilaritySearch_Insert(v, r) ==
    [calls |-> <<"GetCollectionStats", "Search", "Insert">>, err |-> "", text |-> << >>]

\* service.SimilaritySearch(ctx, cli, queryVector): the Milvus calls it makes, the
\* error it returns ("": nil) and res, the schema fields of the records found,
\* concatenated.  The collection is loaded first when its row_count is "0".
SimilaritySearch(v, r) ==
    LET sorted == RecordsBy(v, r.order)
        load == IF RowCountIsZero(v) THEN <<"LoadCollection">> ELSE << >>
        await == IF RowCountIsZero(v) THEN <<"LoadCollection", "Await">> ELSE << >>
    IN  IF r.fail = "stats"
          THEN [calls |-> <<"GetCollectionStats">>, err |-> "stats failed", text |-> << >>]
        ELSE IF r.fail = "load" /\ RowCountIsZero(v)
          THEN [calls |-> <<"GetCollectionStats">> \o load, err |-> "load failed",
                text |-> << >>]
        ELSE IF r.fail = "await" /\ RowCountIsZero(v)
          THEN [calls |-> <<"GetCollectionStats">> \o await, err |-> "load failed",
                text |-> << >>]
        ELSE IF r.fail = "search"
          THEN [calls |-> <<"GetCollectionStats">> \o await \o <<"Search">>,
                err |-> "search failed", text |-> << >>]
        ELSE [calls |-> <<"GetCollectionStats">> \o await \o <<"Search">>, err |-> "",
              text |-> [i \in 1..Len(TopK(sorted)) |-> SchemaOf(TopK(sorted)[i])]]

\* func getCanUseTable(ctx, request): the whole handler
getCanUseTable ==
    /\ mpc = "serving"
    /\ \E arg \in Arguments : \E r \in VDBResults :
         IF ~AssertString(arg)
           THEN /\ mpc' = "exited"
                /\ srv' = Handled("get_can_use_table", arg, NoDB, << >>, "panic",
                                  "interface conversion", << >>)
         ELSE IF QueryIsEmpty(arg.str)
           THEN /\ srv' = Handled("get_can_use_table", arg, NoDB, << >>, "error",
                                  "query is empty", << >>)
                /\ UNCHANGED mpc
         ELSE IF ~r.embedOK
           THEN /\ srv' = Handled("get_can_use_table", arg, r, <<"EmbedQuery">>,
                                  "error", "embedding failed", << >>)
                /\ UNCHANGED mpc
         ELSE LET res == SimilaritySearch(vdb, r)
              IN  /\ srv' = Handled("get_can_use_table", arg, r,
                                    <<"EmbedQuery">> \o res.calls,
                                    IF res.err = "" THEN "result" ELSE "error",
                                    res.err, res.text)
                  /\ UNCHANGED mpc
    /\ UNCHANGED <<storeVars, ctxDone, workCancelled, held, w, fetchVars, updVars,
                   ret, once, faults, hist>>

\* ================================================================ embedding client
\* const dim = 1024: the dimension the collection's vector field is created with.
dim == 1024

\* The most records of one schema the collection is followed up to.
MaxRecords == 1

\* The texts handed to EmbedQuery: the empty text, a description of a request and
\* the schemas of the first two tables.
EmbedTexts == {"", "tables of orders", SchemaOf(1), SchemaOf(2)}

\* An embedding of n elements, all of value e.
Embedding(n, e) == [i \in 1..n |-> e]

\* What the environment and the embedding service do with one call: whether
\* SILICONFLOW_URL and SILICONFLOW_TOKEN are set, whether client.Do and io.ReadAll
\* return, the status code, whether the body parses as JSON and the embeddings of
\* its data field.
EmbedResponse(cfg, sent, read, status, parses, data) ==
    [configured |-> cfg, sent |-> sent, read |-> read, status |-> status,
     parses |-> parses, data |-> data]

EmbedResponses ==
    {EmbedResponse(FALSE, TRUE, TRUE, 200, TRUE, <<Embedding(dim, 1)>>),
     EmbedResponse(TRUE, FALSE, TRUE, 200, TRUE, << >>),
     EmbedResponse(TRUE, TRUE, FALSE, 200, TRUE, << >>),
     EmbedResponse(TRUE, TRUE, TRUE, 200, FALSE, << >>),
     EmbedResponse(TRUE, TRUE, TRUE, 200, TRUE, << >>)}
        \cup {EmbedResponse(TRUE, TRUE, TRUE, st, ps, << >>) :
                 st \in {400, 500}, ps \in BOOLEAN}
        \cup {EmbedResponse(TRUE, TRUE, TRUE, 200, TRUE, <<Embedding(n, e)>>) :
                 n \in {0, 3, dim}, e \in {0, 1}}
        \cup {EmbedResponse(TRUE, TRUE, TRUE, 200, TRUE,
                             <<Embedding(dim, 1), Embedding(3, 0)>>)}

\* The result of EmbedQuery: the network calls it made, its error and its vector.
EmbedResult(calls, err, vector) == [calls |-> calls, err |-> err, vector |-> vector]

\* func EmbedQuery(query string) ([]float32, error): the configuration is checked,
\* the text is posted whatever it is, and of a 200 response with data the first
\* embedding is converted element by element, whatever its length (the elements
\* modelled are exact in float32).
EmbedQuery(query, r) ==
    IF ~r.configured THEN EmbedResult(<< >>, "config", << >>)
    ELSE IF ~r.sent THEN EmbedResult(<<"POST">>, "send", << >>)
    ELSE IF ~r.read THEN EmbedResult(<<"POST">>, "read", << >>)
    ELSE IF r.status # 200 THEN EmbedResult(<<"POST">>, "status", << >>)
    ELSE IF ~r.parses THEN EmbedResult(<<"POST">>, "parse", << >>)
    ELSE IF Len(r.data) = 0 THEN EmbedResult(<<"POST">>, "nodata", << >>)
    ELSE EmbedResult(<<"POST">>, "none", [i \in 1..Len(r.data[1]) |-> r.data[1][i]])

\* A caller (a worker of initVectorDB, UpdateSchema, getCanUseTable) calls
\* EmbedQuery; ret keeps the text, the response of the service and the result.
CallEmbedQuery ==
    /\ mpc = "serving"
    /\ \E query \in EmbedTexts : \E r \in EmbedResponses :
         LET res == EmbedQuery(query, r)
         IN  ret' = [fn |-> "EmbedQuery", text |-> query, response |-> r,
                     calls |-> res.calls, err |-> res.err, vector |-> res.vector]
    /\ UNCHANGED <<srv, once, faults, hist, storeVars, procVars, fetchVars, updVars>>

\* SaveToVDB(ctx, cli, []string{schema}, [][]float32{vector}) after EmbedQuery
\* returned the vector of a table's schema: cli.Insert with the vector column
\* declared of dimension dim; the collection takes a record only of that dimension.
CallSaveToVDB ==
    /\ mpc = "serving"
    /\ ret.fn = "EmbedQuery"
    /\ ret.err = "none"
    /\ \E t \in 1..live : \E ok \in BOOLEAN :
         /\ ret.text = SchemaOf(t)
         /\ vdb[t] < MaxRecords
         /\ LET inserted == ok /\ Len(ret.vector) = dim
            IN  /\ vdb' = [vdb EXCEPT ![t] = IF inserted THEN @ + 1 ELSE @]
                /\ ret' = [fn |-> "SaveToVDB", text |-> ret.text, response |-> ret.response,
                           calls |-> <<"Insert">>,
                           err |-> IF inserted THEN "none" ELSE "insert",
                           vector |-> ret.vector]
    /\ UNCHANGED <<srv, once, faults, hist, coll, ledger, live, procVars, fetchVars, updVars>>

\* ================================================================ InitSQLite
\* The goroutines that call a ledger function at the same time.
Callers == 2

\* sqliteOnce not yet used, sqliteInitErr nil, sqliteDB nil, no goroutine inside
\* InitSQLite. runs counts the executions of the function given to sqliteOnce.Do,
\* opened the connections sql.Open has returned.
NoOnce ==
    [state |-> "fresh", err |-> "none", db |-> 0, local |-> 0, runs |-> 0, opened |-> 0,
     pc |-> [c \in 1..Callers |-> "idle"],
     got |-> [c \in 1..Callers |-> "never"],
     used |-> [c \in 1..Callers |-> 0]]

\* A failed initialisation is tried again by the next call.
OnceRuns_Retry == once.state = "fresh" \/ (once.state = "done" /\ once.err # "none")

\* sync.Once: Do runs its function when no call of Do has run it yet.
OnceRuns == once.state = "fresh"

\* InitSQLite(): currentDir, err := filepath.Abs(...); if err != nil { return ... }
InitSQLite_Call(c) ==
    /\ mpc = "serving"
    /\ once.pc[c] = "idle"
    /\ \E ok \in BOOLEAN :
         /\ MayReturn(ok)
         /\ faults' = Charge(ok)
         /\ once' = IF ok THEN [once EXCEPT !.pc[c] = "do"]
                          ELSE [once EXCEPT !.got[c] = "path"]
    /\ UNCHANGED <<srv, ret, hist, storeVars, procVars, fetchVars, updVars>>

\* sqliteOnce.Do(func() {...}): the first caller runs the function; a caller that
\* arrives while it runs waits for its end; later callers return at once.
InitSQLite_Do(c) ==
    /\ once.pc[c] = "do"
    /\ IF OnceRuns
         THEN once' = [once EXCEPT !.state = "running", !.pc[c] = "stat", !.runs = @ + 1]
         ELSE /\ once.state = "done"
              /\ once' = [once EXCEPT !.pc[c] = "ret"]
    /\ UNCHANGED <<srv, ret, faults, hist, storeVars, procVars, fetchVars, updVars>>

\* The function returns: sqliteOnce is done, callers waiting in Do go on.
OnceDone(c, err, db) ==
    /\ once' = [once EXCEPT !.state = "done", !.pc[c] = "ret", !.err = err, !.db = db]
    /\ sqlite' = IF err = "none" THEN "ok" ELSE "err"

\* One step of the function given to sqliteOnce.Do: os.Stat and os.Create of the
\* file ("stat"), sql.Open ("open"), db.Ping ("ping"), CREATE TABLE IF NOT EXISTS
\* and sqliteDB = db ("table"). A failed step sets sqliteInitErr and returns.
InitSQLite_Step(c) ==
    /\ once.pc[c] \in {"stat", "open", "ping", "table"}
    /\ \E ok \in BOOLEAN :
         /\ MayReturn(ok)
         /\ faults' = Charge(ok)
         /\ IF ~ok THEN OnceDone(c, once.pc[c], once.db)
            ELSE IF once.pc[c] = "stat"
              THEN once' = [once EXCEPT !.pc[c] = "open"] /\ UNCHANGED sqlite
            ELSE IF once.pc[c] = "open"
              THEN /\ once' = [once EXCEPT !.pc[c] = "ping", !.opened = @ + 1,
                                           !.local = once.opened + 1]
                   /\ UNCHANGED sqlite
            ELSE IF once.pc[c] = "ping"
              THEN once' = [once EXCEPT !.pc[c] = "table"] /\ UNCHANGED sqlite
            ELSE OnceDone(c, "none", once.local)
    /\ UNCHANGED <<srv, ret, hist, storeVars, procVars, fetchVars,
                   upc, cur, mutexLocked, tickPending>>

\* return sqliteInitErr; the ledger function that called goes on with sqliteDB
\* when the error is nil.
InitSQLite_Return(c) ==
    /\ once.pc[c] = "ret"
    /\ once' = [once EXCEPT !.pc[c] = "idle", !.got[c] = once.err,
                            !.used[c] = IF once.err = "none" THEN once.db ELSE @]
    /\ UNCHANGED <<srv, ret, faults, hist, storeVars, procVars, fetchVars, updVars>>

\* ================================================================ ledger calls
\* The table names the ledger functions are called with, and the most names of
\* one call.
LedgerNames == 2
MaxNames == 2

\* The lists of names of one call: any order, a name may be given twice.
NameLists == UNION {[1..n -> 1..LedgerNames] : n \in 0..MaxNames}

\* What is kept of the call before: the function, its list and whether it
\* returned without an error.
LastCall == [fn |-> ret.fn,
             rows |-> IF ret.fn \in {"SaveToSQLite", "CheckRowExist"} THEN ret.rows ELSE << >>,
             ok |-> IF ret.fn = "SaveToSQLite" THEN ret.ok ELSE FALSE]

\* ok, err := SaveToSQLite(rows): initOK is the outcome of sqliteOnce.Do when it
\* runs, execOK whether sqliteDB.Exec meets no fault of the store.
CallSaveToSQLite ==
    /\ mpc = "serving"
    /\ \E rows \in NameLists : \E initOK \in BOOLEAN, execOK \in BOOLEAN :
         /\ initOK \/ sqlite = "uninit"
         /\ sqlite' = InitSQLite(sqlite, initOK)
         /\ ledger' = SaveToSQLite(rows, ledger, sqlite', execOK)
         /\ ret' = [fn |-> "SaveToSQLite", rows |-> rows, before |-> ledger,
                    stored |-> execOK, answered |-> TRUE, scanFailed |-> {},
                    ok |-> SaveToSQLiteOK(rows, ledger, sqlite', execOK),
                    res |-> << >>, last |-> LastCall]
    /\ UNCHANGED <<srv, once, faults, hist, coll, vdb, live, procVars, fetchVars,
                   upc, cur, mutexLocked, tickPending>>

\* res := CheckRowExist(row): queryOK is whether sqliteDB.Query returns rows,
\* scanFailed the recorded names whose rows.Scan fails.
CallCheckRowExist ==
    /\ mpc = "serving"
    /\ \E row \in NameLists : \E initOK \in BOOLEAN, queryOK \in BOOLEAN :
       \E scanFailed \in SUBSET (ledger \cap Range(row)) :
         /\ initOK \/ sqlite = "uninit"
         /\ queryOK \/ scanFailed = {}
         /\ sqlite' = InitSQLite(sqlite, initOK)
         /\ ret' = [fn |-> "CheckRowExist", rows |-> row, before |-> ledger,
                    stored |-> TRUE, answered |-> queryOK, scanFailed |-> scanFailed,
                    ok |-> TRUE,
                    res |-> CheckRowExist(row, ledger, sqlite', queryOK, scanFailed),
                    last |-> LastCall]
    /\ UNCHANGED <<srv, once, faults, hist, coll, vdb, ledger, live, procVars, fetchVars,
                   upc, cur, mutexLocked, tickPending>>

\* ================================================================ restarts
\* The tables of the relational source in the runs with restarts.
LifeTables == 2

\* The process has ended (os.Exit of Fatalf, or main returned when ServeStdio
\* did) and the program is started again: the collection, its records, the ledger
\* file and the tables are what the earlier process left; everything else is new.
Restart ==
    /\ mpc \in {"exited", "serving"}
    /\ ctxDone' = FALSE
    /\ workCancelled' = FALSE
    /\ mpc' = "initdb"
    /\ held' = 0
    /\ w' = [t \in Tables |-> "none"]
    /\ fpc' = "idle"
    /\ flist' = << >>
    /\ fidx' = 0
    /\ ch' = << >>
    /\ chClosed' = FALSE
    /\ upc' = "off"
    /\ cur' = 0
    /\ mutexLocked' = FALSE
    /\ tickPending' = FALSE
    /\ sqlite' = "uninit"
    /\ srv' = NoRequest
    /\ ret' = NoCall
    /\ once' = NoOnce
    /\ hist' = [HistInit EXCEPT !.ledger0 = ledger]
    /\ UNCHANGED <<storeVars, faults>>

\* Milvus finishes the index build or the load it was asked for by a process that
\* has ended since.
MilvusProgress ==
    /\ mpc = "exited"
    /\ coll \in {"IndexBuilding", "Loading"}
    /\ coll' = IF coll = "IndexBuilding" THEN "Indexed" ELSE "Loaded"
    /\ UNCHANGED <<srv, ret, once, vdb, ledger, live, procVars, fetchVars, updVars, faults, hist>>

\* service.UpdateSchema(db, cli) is started by the serving process: the ticker is
\* created and the loop waits for its first tick.
UpdateSchema_Start ==
    /\ mpc = "serving"
    /\ upc = "off"
    /\ upc' = "wait"
    /\ UNCHANGED <<srv, ret, once, storeVars, procVars, fetchVars, cur, mutexLocked,
                   tickPending, sqlite, faults, hist>>

TypeOK ==
    /\ coll \in {"Absent", "Created", "IndexBuilding", "Indexed", "Loading", "Loaded"}
    /\ vdb \in [Tables -> Nat]
    /\ ledger \subseteq Tables
    /\ live \in 0..MaxTables
    /\ w \in [Tables -> {"none", "spawned", "embedding", "inserting", "done"}]
    /\ held \in 0..MaxTables
    /\ faults \in 0..MaxFaults

\* A process starts: main has loaded its configuration and connects to MySQL.
InitProcess ==
    /\ vdb = [t \in Tables |-> 0]
    /\ ctxDone = FALSE
    /\ workCancelled = FALSE
    /\ mpc = "initdb"
    /\ held = 0
    /\ w = [t \in Tables |-> "none"]
    /\ fpc = "idle"
    /\ flist = << >>
    /\ fidx = 0
    /\ ch = << >>
    /\ chClosed = FALSE
    /\ upc = "off"
    /\ cur = 0
    /\ mutexLocked = FALSE
    /\ tickPending = FALSE
    /\ sqlite = "uninit"
    /\ srv = NoRequest
    /\ ret = NoCall
    /\ once = NoOnce
    /\ hist = [HistInit EXCEPT !.ledger0 = ledger]

\* The collection is absent (a first start, or MILVUS_COLLECTION names a collection
\* not created yet) or was created by an earlier run; the ledger file schema.db,
\* which is not keyed by the collection, holds what earlier runs wrote to it.
InitStartup ==
    /\ coll \in {"Absent", "Loaded"}
    /\ ledger \in SUBSET {1}
    /\ live = StartupTables
    /\ faults = 0
    /\ InitProcess

\* A first start on a source of PoolTables tables, every external call succeeding.
InitPool ==
    /\ coll = "Absent"
    /\ ledger = {}
    /\ live = PoolTables
    /\ faults = MaxFaults
    /\ InitProcess

NextStartup ==
    \/ initDB
    \/ initMilvus
    \/ CheckCollection
    \/ CreateCollection_Create
    \/ CreateCollection_Index
    \/ CreateCollection_AwaitIndex
    \/ CreateCollection_Load
    \/ CreateCollection_AwaitLoad
    \/ GetAllTableSchema_List
    \/ GetAllTableSchema_Loop
    \/ GetAllTableSchema_Send
    \/ initVectorDB_Recv
    \/ initVectorDB_Dispatch
    \/ initVectorDB_Wait
    \/ \E t \in Tables : Worker_Start(t)
    \/ \E t \in Tables : Worker_Embedded(t)
    \/ \E t \in Tables : Worker_Saved(t)
    \/ Cancel
    \/ Fatalf

SpecStartup == InitStartup /\ [][NextStartup]_vars

SpecPool == InitPool /\ [][NextStartup]_vars

\* A process whose startup has returned and which runs UpdateSchema: the collection
\* exists, and the ledger holds what the periodic passes of earlier runs recorded.
InitPeriodic ==
    /\ coll = "Loaded"
    /\ live \in 0..PeriodicTables
    /\ ledger \in SUBSET (1..live)
    /\ \E idx \in SUBSET (1..live) : vdb = [t \in Tables |-> IF t \in idx THEN 1 ELSE 0]
    /\ ctxDone = FALSE
    /\ workCancelled = TRUE
    /\ mpc = "serving"
    /\ held = 0
    /\ w = [t \in Tables |-> "none"]
    /\ fpc = "idle"
    /\ flist = << >>
    /\ fidx = 0
    /\ ch = << >>
    /\ chClosed = FALSE
    /\ upc = "wait"
    /\ cur = 0
    /\ mutexLocked = FALSE
    /\ tickPending = FALSE
    /\ sqlite = "uninit"
    /\ srv = NoRequest
    /\ ret = NoCall
    /\ once = NoOnce
    /\ faults = 0
    /\ hist = [HistInit EXCEPT !.ledger0 = ledger, !.result = "ok"]

NextPeriodic ==
    \/ Tick
    \/ CreateTable
    \/ UpdateSchema_Tick
    \/ GetAllTableSchema_List
    \/ GetAllTableSchema_Loop
    \/ GetAllTableSchema_Send
    \/ UpdateSchema_Fetched
    \/ UpdateSchema_Range
    \/ UpdateSchema_Check
    \/ UpdateSchema_Save
    \/ UpdateSchema_Embed
    \/ UpdateSchema_Insert

SpecPeriodic == InitPeriodic /\ [][NextPeriodic]_vars

\* A process whose startup has returned and which serves requests over stdio: the
\* collection exists and holds no record, or the schema of every table and that of
\* the first table twice (inserted again by a later pass).
InitServe ==
    /\ coll = "Loaded"
    /\ live = StartupTables
    /\ ledger = {}
    /\ \/ vdb = [t \in Tables |-> 0]
       \/ vdb = [t \in Tables |-> IF t = 1 THEN 2 ELSE IF t <= live THEN 1 ELSE 0]
    /\ ctxDone = FALSE
    /\ workCancelled = TRUE
    /\ mpc = "serving"
    /\ held = 0
    /\ w = [t \in Tables |-> "none"]
    /\ fpc = "idle"
    /\ flist = << >>
    /\ fidx = 0
    /\ ch = << >>
    /\ chClosed = FALSE
    /\ upc = "off"
    /\ cur = 0
    /\ mutexLocked = FALSE
    /\ tickPending = FALSE
    /\ sqlite = "uninit"
    /\ srv = NoRequest
    /\ ret = NoCall
    /\ once = NoOnce
    /\ faults = 0
    /\ hist = [HistInit EXCEPT !.result = "ok"]

NextServe ==
    \/ executeSql
    \/ getCanUseTable

SpecServe == InitServe /\ [][NextServe]_vars

\* A running process whose callers embed texts and insert the vectors of schemas.
InitEmbed ==
    /\ coll = "Loaded"
    /\ live = 2
    /\ ledger = {}
    /\ vdb = [t \in Tables |-> 0]
    /\ ctxDone = FALSE
    /\ workCancelled = TRUE
    /\ mpc = "serving"
    /\ held = 0
    /\ w = [t \in Tables |-> "none"]
    /\ fpc = "idle"
    /\ flist = << >>
    /\ fidx = 0
    /\ ch = << >>
    /\ chClosed = FALSE
    /\ upc = "off"
    /\ cur = 0
    /\ mutexLocked = FALSE
    /\ tickPending = FALSE
    /\ sqlite = "uninit"
    /\ srv = NoRequest
    /\ ret = NoCall
    /\ once = NoOnce
    /\ faults = 0
    /\ hist = [HistInit EXCEPT !.result = "ok"]

NextEmbed ==
    \/ CallEmbedQuery
    \/ CallSaveToVDB

SpecEmbed == InitEmbed /\ [][NextEmbed]_vars

\* A running process whose ledger functions are called; the ledger file may hold
\* names recorded by an earlier process.
InitLedger ==
    /\ coll = "Loaded"
    /\ live = LedgerNames
    /\ ledger \in SUBSET (1..LedgerNames)
    /\ vdb = [t \in Tables |-> 0]
    /\ ctxDone = FALSE
    /\ workCancelled = TRUE
    /\ mpc = "serving"
    /\ held = 0
    /\ w = [t \in Tables |-> "none"]
    /\ fpc = "idle"
    /\ flist = << >>
    /\ fidx = 0
    /\ ch = << >>
    /\ chClosed = FALSE
    /\ upc = "off"
    /\ cur = 0
    /\ mutexLocked = FALSE
    /\ tickPending = FALSE
    /\ sqlite = "uninit"
    /\ srv = NoRequest
    /\ ret = NoCall
    /\ once = NoOnce
    /\ faults = 0
    /\ hist = [HistInit EXCEPT !.result = "ok", !.ledger0 = ledger]

NextLedger ==
    \/ CallSaveToSQLite
    \/ CallCheckRowExist

SpecLedger == InitLedger /\ [][NextLedger]_vars

\* A running process in which Callers goroutines call the ledger functions.
InitOnce ==
    /\ InitLedger

NextOnce ==
    \/ \E c \in 1..Callers : InitSQLite_Call(c)
    \/ \E c \in 1..Callers : InitSQLite_Do(c)
    \/ \E c \in 1..Callers : InitSQLite_Step(c)
    \/ \E c \in 1..Callers : InitSQLite_Return(c)

SpecOnce == InitOnce /\ [][NextOnce]_vars

\* The first start of the program on a source of LifeTables tables, with no
\* collection and no ledger file, followed by any restarts.
InitLifecycle ==
    /\ coll = "Absent"
    /\ ledger = {}
    /\ live = LifeTables
    /\ faults = 0
    /\ InitProcess

NextLifecycle ==
    \/ NextStartup
    \/ Restart
    \/ MilvusProgress
    \/ UpdateSchema_Start
    \/ Tick
    \/ UpdateSchema_Tick
    \/ UpdateSchema_Fetched
    \/ UpdateSchema_Range
    \/ UpdateSchema_Check
    \/ UpdateSchema_Save
    \/ UpdateSchema_Embed
    \/ UpdateSchema_Insert

SpecLifecycle == InitLifecycle /\ [][NextLifecycle]_vars

\* A process that runs UpdateSchema on a source of as many tables as the schema
\* channel holds, or more; no call of an external service fails.
InitLongPass ==
    /\ coll = "Loaded"
    /\ live \in {chanCap, chanCap + MoreTables}
    /\ ledger = {}
    /\ vdb = [t \in Tables |-> 0]
    /\ ctxDone = FALSE
    /\ workCancelled = TRUE
    /\ mpc = "serving"
    /\ held = 0
    /\ w = [t \in Tables |-> "none"]
    /\ fpc = "idle"
    /\ flist = << >>
    /\ fidx = 0
    /\ ch = << >>
    /\ chClosed = FALSE
    /\ upc = "wait"
    /\ cur = 0
    /\ mutexLocked = FALSE
    /\ tickPending = FALSE
    /\ sqlite = "uninit"
    /\ srv = NoRequest
    /\ ret = NoCall
    /\ once = NoOnce
    /\ faults = MaxFaults
    /\ hist = [HistInit EXCEPT !.result = "ok"]

\* The steps of the goroutine that runs UpdateSchema, GetAllTableSchema included
\* (it is called, not started as a goroutine).
PassStep ==
    \/ UpdateSchema_Tick
    \/ GetAllTableSchema_List
    \/ GetAllTableSchema_Loop
    \/ GetAllTableSchema_Send
    \/ UpdateSchema_Fetched
    \/ UpdateSchema_Range
    \/ UpdateSchema_Check
    \/ UpdateSchema_Save
    \/ UpdateSchema_Embed
    \/ UpdateSchema_Insert

NextLongPass ==
    \/ Tick
    \/ PassStep

\* The Go scheduler runs a goroutine that can take a step.
SpecLongPass == InitLongPass /\ [][NextLongPass]_vars /\ WF_vars(PassStep)

\* A first start in which every call returns: on a source of more tables than
\* workers with every call succeeding, or on a smaller source with failing calls.
InitFair ==
    \/ InitPool
    \/ /\ coll = "Absent"
       /\ ledger = {}
       /\ live = StartupTables
       /\ faults = 0
       /\ InitProcess

\* A step of main or of one of the goroutines it started (every step of the
\* startup but the arrival of the signal).
GoroutineStep == NextStartup /\ ctxDone' = ctxDone

\* The Go scheduler runs a goroutine that can take a step, and every call of an
\* external service returns.
SpecFair == InitFair /\ [][NextStartup]_vars /\ WF_vars(GoroutineStep)

\* ================================================================ claims

\* C1: in every reachable state of an indexing pass, a table name is in the dedup
\* ledger only if the vector insert of that table's schema has already returned
\* success; after a failed embedding or insert the ledger does not hold the name.
\* (UpdateSchema records the name before it embeds and inserts.)
C1_LedgerOnlyAfterInsert == (ledger \ hist.ledger0) \subseteq hist.insertOK

\* C2: a pass never calls the embedding client for the schema of a table whose
\* name was in the dedup ledger when the pass began.
\* (initVectorDB never consults the ledger.)
C2_NoEmbedForLedgered == hist.embedCalls \cap hist.ledger0 = {}

\* C3: when an indexing pass has completed, every table whose schema the pass
\* inserted into the vector index is recorded in the dedup ledger.
\* (initVectorDB never writes the ledger.)
C3_InsertedAreRecorded ==
    (mpc = "serving" /\ hist.check = "absent") => hist.insertOK \subseteq ledger

\* C4: if the collection existence check at startup returns true, the startup
\* sequence creates no collection, fetches no schema, calls no embedding and no
\* vector insert, and returns success.
C4_ExistingCollectionSkips ==
    hist.check = "has" =>
        /\ mpc = "serving"
        /\ hist.result = "ok"
        /\ ~hist.created
        /\ ~hist.listed
        /\ hist.queried = {}
        /\ hist.embedCalls = {}
        /\ hist.insertCalls = {}
        /\ fpc = "idle"
        /\ coll = "Loaded"
        /\ \A t \in Tables : vdb[t] = 0 /\ w[t] = "none"

C4_Witness == hist.check = "has" /\ mpc = "serving"

\* C5: the tool server accepts requests only after the startup sequence has
\* returned success, and then no worker dispatched by the pass is still running.
C5_ServingAfterJoin ==
    mpc = "serving" =>
        /\ hist.result = "ok"
        /\ Running = {}
        /\ held = 0

C5_Witness ==
    /\ mpc = "serving"
    /\ hist.insertOK # {}
    /\ hist.embedFailed # {}

\* C6: in every reachable state of the startup pass at most maxWorkers (5)
\* embed-and-insert workers have been started and have not yet finished.
C6_AtMostMaxWorkers == Cardinality(Running) <= maxWorkers

\* Five workers are running and initVectorDB holds a sixth schema, waiting for a slot.
C6_Witness ==
    /\ Cardinality(Running) = maxWorkers
    /\ mpc = "acquire"
    /\ held # 0

\* C7: an embedding or vector-insert failure for one table never aborts the
\* batch: when the pass is over, every table the fetcher emitted (and the ledger
\* did not hold, and whose ledger calls did not fail) has been embedded and, if its
\* embedding succeeded, inserted.
\* (UpdateSchema returns on the first embedding failure.)
C7_FailureDoesNotAbortBatch ==
    hist.pass \in {"complete", "aborted"} =>
        \A t \in hist.emitted \ (hist.ledger0 \cup hist.ledgerFailed) :
            /\ t \in hist.embedCalls
            /\ t \notin hist.embedFailed => t \in hist.insertCalls

\* C8: at most one periodic pass runs at a time (a pass runs only while it holds
\* updateMutex), and a tick that arrived while a pass was running is skipped: it
\* starts no pass and causes no embedding call.
C8_OverlappingTickSkipped ==
    /\ PassRunning => mutexLocked
    /\ hist.lastOverlap => (hist.lastTick = "skipped" /\ hist.tickEmbeds = {} /\ ~PassRunning)

C8_Witness ==
    /\ hist.lastOverlap
    /\ hist.lastTick = "skipped"
    /\ hist.embedCalls # {}

\* C9: only ticks that overlap a running pass are skipped: a tick that arrives
\* when no pass is running executes a pass over the live table list.
\* (updateMutex is unlocked by a defer, which runs when UpdateSchema returns, so
\* every tick after the first pass is skipped.)
C9_OnlyOverlappingTicksSkipped == hist.lastTick = "skipped" => hist.lastOverlap

\* C10: after an embedding failure for an item of a periodic pass the periodic
\* loop keeps running.
\* (The failure makes UpdateSchema return.)
C10_LoopSurvivesItemFailure == hist.embedFailed # {} => upc # "returned"

\* C11 (as stated): once the context given to GetAllTableSchema is cancelled, the
\* fetcher issues no further definition query and emits no further schema.
\* (A fetcher standing at its send when the context is cancelled has both cases of
\* the select ready; the send can be the one chosen.)
C11_NothingAfterCancel ==
    [][FetchCtxDone => (hist'.queried = hist.queried /\ hist'.emitted = hist.emitted)]_vars

\* C11: once the context given to GetAllTableSchema is cancelled, the fetcher
\* issues no further definition query, emits at most the one schema it had fetched
\* before the cancellation, and its next step at the top of the loop (or at the
\* list query) closes the channel.
C11_CancelStopsFetcher ==
    [][FetchCtxDone =>
         /\ hist'.queried = hist.queried
         /\ hist'.emitted # hist.emitted => (fpc = "send" /\ fpc' = "loop")
         /\ (fpc \in {"list", "loop"} /\ fpc' # fpc) => fpc' = "done"
         /\ fpc' = "done" => chClosed']_vars

\* The fetcher was cancelled between two tables and closed the channel with
\* tables left in its list.
C11_Witness ==
    /\ ctxDone
    /\ fpc = "done"
    /\ chClosed
    /\ hist.queried # {}
    /\ fidx >= 1
    /\ fidx <= Len(flist)

\* C12: once the root context is cancelled no worker begins an embedding call,
\* and once the startup pass has observed the cancellation (its receive loop
\* returned ctx.Err()) no further worker is dispatched.
C12_NoDispatchAfterCancel ==
    [][/\ ctxDone => hist'.embedCalls = hist.embedCalls
       /\ hist.failed = "cancelled" =>
             \A t \in Tables : w[t] = "none" => w'[t] = "none"]_vars

\* The pass observed the cancellation, and a worker dispatched before it found
\* workCtx cancelled and returned without calling EmbedQuery.
C12_Witness ==
    /\ ctxDone
    /\ hist.failed = "cancelled"
    /\ hist.skipped # {}
    /\ hist.embedCalls # {}

\* C13: a worker that has begun its item finishes it: its vector insert is not
\* aborted by the cancellation, and the process does not exit while the worker
\* is still embedding or inserting.
\* (SaveToVDB runs under workCtx, and initVectorDB returns ctx.Err() without
\* wg.Wait(), after which main exits through logger.Fatalf.)
C13_StartedWorkerFinishes ==
    \A t \in hist.embedCalls :
        /\ t \notin hist.insertAborted
        /\ mpc = "exited" => w[t] = "done"

\* C14: an embedding request in flight when the root context is cancelled is
\* cancelled with it: it returns an error, never a vector.
\* (EmbedQuery binds its request to a timeout of context.Background().)
C14_EmbedCancelledWithRoot ==
    [][\A t \in Tables :
         (ctxDone /\ w[t] = "embedding" /\ w'[t] # "embedding") => w'[t] = "done"]_vars

\* C15: when the list query succeeded and the fetcher has ended, every listed
\* table was queried, the tables emitted are exactly the listed tables whose
\* definition query did not fail, and the channel is closed.
C15_FailedTableSkippedOnly ==
    (fpc = "done" /\ fidx >= 1) =>
        /\ chClosed
        /\ hist.queried = Range(flist)
        /\ hist.emitted = Range(flist) \ hist.fetchFailed

\* The definition query of a table failed and a later table was emitted.
C15_Witness ==
    /\ fpc = "done"
    /\ \E a \in hist.fetchFailed : \E b \in hist.emitted : a < b

\* C16: after a failure of the MySQL connect, the Milvus connect, the collection
\* check or the collection creation, main is in logger.Fatalf or has exited, it
\* never serves, and no table list, definition query or embedding call is made.
C16_StartupFailureFatal ==
    hist.failed \in {"db", "milvus", "check", "create"} =>
        /\ mpc \in {"fatal", "exited"}
        /\ fpc = "idle"
        /\ ~hist.listed
        /\ hist.queried = {}
        /\ hist.embedCalls = {}

\* An RPC of the collection creation failed and the process has exited.
C16_Witness ==
    /\ hist.failed = "create"
    /\ hist.created
    /\ mpc = "exited"

\* C17: every request ends with a result or an error result and leaves the
\* process serving.
\* (A request without a string "query" argument makes the handler panic.)
C17_NoRequestCrashes ==
    srv.outcome # "none" => (srv.outcome \in {"result", "error"} /\ mpc = "serving")

\* C18: execute_sql called with the empty statement returns the error
\* "query is empty" and makes no call to the relational source.
C18_EmptyStatementRejected ==
    (srv.tool = "execute_sql" /\ srv.arg.kind = "string" /\ srv.arg.str = << >>) =>
        /\ srv.outcome = "error"
        /\ srv.err = "query is empty"
        /\ srv.calls = << >>

C18_Witness ==
    /\ srv.tool = "execute_sql"
    /\ srv.arg.kind = "string"
    /\ srv.arg.str = << >>
    /\ srv.outcome = "error"

\* The statement has the keyword kw, in any case, after `skip` leading characters.
KeywordAt(q, kw, skip) ==
    /\ Len(q) >= skip + Len(kw)
    /\ \A j \in 1..Len(kw) : ToLowerChar(q[skip + j]) = kw[j]

\* The handler was given a non-empty statement and handed it to Execute.
ExecuteRan ==
    /\ srv.tool = "execute_sql"
    /\ srv.arg.kind = "string"
    /\ srv.arg.str # << >>
    /\ srv.outcome \in {"result", "error"}

\* C19 (as stated): a non-empty statement takes the read path (one QueryContext)
\* if and only if its lower-cased text begins with select, show, describe or
\* explain, and the write path (one ExecContext) otherwise.
\* (Execute trims the statement before the test: "  Select 1 " is a query.)
C19_ReadIffLowerCasedPrefix ==
    ExecuteRan =>
        srv.calls = IF \E kw \in ReadKeywords : KeywordAt(srv.arg.str, kw, 0)
                      THEN <<"QueryContext">> ELSE <<"ExecContext">>

\* C19: a non-empty statement takes the read path (one QueryContext) if and only
\* if, after its leading white space, it begins in any case with select, show,
\* describe or explain, and the write path (one ExecContext) otherwise.
C19_ReadIffTrimmedPrefix ==
    ExecuteRan =>
        srv.calls =
            IF \E kw \in ReadKeywords : \E skip \in 0..Len(srv.arg.str) :
                  /\ \A j \in 1..skip : IsSpace(srv.arg.str[j])
                  /\ KeywordAt(srv.arg.str, kw, skip)
              THEN <<"QueryContext">> ELSE <<"ExecContext">>

\* An upper-case query with leading white space took the read path.
C19_Witness ==
    /\ ExecuteRan
    /\ IsSpace(srv.arg.str[1])
    /\ Len(srv.arg.str) > 2
    /\ srv.arg.str[3] = "S"
    /\ srv.calls = <<"QueryContext">>

\* C20: a successful write of N rows with last insert id M answers
\* "Query executed successfully. Rows affected: N", followed by
\* ", Last insert ID: M" exactly when M > 0.
C20_WriteResponse ==
    (ExecuteRan /\ srv.outcome = "result" /\ srv.calls = <<"ExecContext">>) =>
        /\ SubSeq(srv.text, 1, 1 + Len(FormatInt(srv.db.rowsAffected)))
             = <<"Query executed successfully. Rows affected: ">>
                   \o FormatInt(srv.db.rowsAffected)
        /\ srv.db.lastInsertID > 0 =>
             SubSeq(srv.text, 2 + Len(FormatInt(srv.db.rowsAffected)), Len(srv.text))
                 = <<", Last insert ID: ">> \o FormatInt(srv.db.lastInsertID)
        /\ srv.db.lastInsertID <= 0 =>
             Len(srv.text) = 1 + Len(FormatInt(srv.db.rowsAffected))

\* A write that affected more than nine rows and reported a positive insert id.
C20_Witness ==
    /\ ExecuteRan
    /\ srv.calls = <<"ExecContext">>
    /\ srv.outcome = "result"
    /\ srv.db.rowsAffected > 9
    /\ srv.db.lastInsertID > 0
    /\ Len(srv.text) = 5

\* The handler answered a read statement with a result.
ReadSucceeded ==
    /\ ExecuteRan
    /\ srv.outcome = "result"
    /\ srv.calls = <<"QueryContext">>

\* The places of a piece in a text, in order.
PlacesOf(text, piece) ==
    SelectSeq([i \in 1..Len(text) |-> i], LAMBDA i : text[i] = piece)

\* The k-th object of a JSON array: what stands between its braces.
ObjectAt(text, k) ==
    SubSeq(text, PlacesOf(text, "{")[k] + 1, PlacesOf(text, "}")[k] - 1)

\* A column value as JSON: a number as its digits, a text in quotes, NULL as null.
ValueText(cell) ==
    CASE cell.kind = "int64" -> <<cell.v>>
      [] cell.kind = "bytes" -> <<"\"", cell.v, "\"">>
      [] OTHER -> <<"null">>

\* The object has the entry "name": value.
HasEntry(obj, name, cell) ==
    \E p \in 1..Len(obj) :
        SubSeq(obj, p, p + 3 + Len(ValueText(cell)))
            = <<"\"", name, "\"", ":">> \o ValueText(cell)

\* C21: a successful read answers a JSON array with one object per row, in row
\* order, each object holding one entry per result column, the column's name
\* with the row's value; no row gives the empty array.
\* (The row object is a map keyed by the column name: of two columns with the
\* same name only the later one is left.)
C21_OneEntryPerColumn ==
    ReadSucceeded =>
        IF srv.db.rows = << >> THEN srv.text = <<"[]">>
        ELSE /\ srv.text[1] = "["
             /\ srv.text[Len(srv.text)] = "]"
             /\ Len(PlacesOf(srv.text, "{")) = Len(srv.db.rows)
             /\ Len(PlacesOf(srv.text, "}")) = Len(srv.db.rows)
             /\ \A k \in 1..Len(srv.db.rows) :
                   /\ Len(PlacesOf(ObjectAt(srv.text, k), ":")) = Len(srv.db.columns)
                   /\ \A j \in DOMAIN srv.db.columns :
                         HasEntry(ObjectAt(srv.text, k), srv.db.columns[j],
                                  srv.db.rows[k][j])

\* The handler was given a non-empty description and called EmbedQuery.
FindRan ==
    /\ srv.tool = "get_can_use_table"
    /\ srv.arg.kind = "string"
    /\ srv.arg.str # << >>
    /\ srv.outcome \in {"result", "error"}

\* C22: get_can_use_table with a non-empty description answers the concatenation
\* of at most 3 schema texts, each the schema of a record of the collection, and
\* they are the 3 records nearest to the query vector, nearest first (all the
\* records when there are fewer); when EmbedQuery fails, no Milvus call is made
\* and the handler returns an error.
C22_TopThreeSchemas ==
    FindRan =>
        /\ ~srv.db.embedOK => (srv.outcome = "error" /\ srv.calls = <<"EmbedQuery">>)
        /\ srv.outcome = "result" =>
             LET hits == [i \in 1..Len(srv.text) |->
                             CHOOSE t \in Tables : SchemaOf(t) = srv.text[i]]
                 rank(t) == CHOOSE i \in DOMAIN srv.db.order : srv.db.order[i] = t
                 count(t) == Cardinality({i \in DOMAIN hits : hits[i] = t})
             IN  /\ Len(srv.text) <= 3
                 /\ \A i \in DOMAIN srv.text :
                       \E t \in Tables : vdb[t] > 0 /\ SchemaOf(t) = srv.text[i]
                 /\ \A t \in Tables : count(t) <= vdb[t]
                 /\ Len(srv.text) < 3 => \A t \in Tables : count(t) = vdb[t]
                 /\ \A i, j \in DOMAIN hits : i < j => rank(hits[i]) <= rank(hits[j])
                 /\ \A t \in Tables : \A i \in DOMAIN hits :
                       count(t) < vdb[t] => rank(hits[i]) <= rank(t)

\* A collection of more than 3 records answered a search with 3 schemas, the
\* last table's first.
C22_Witness ==
    /\ FindRan
    /\ srv.outcome = "result"
    /\ vdb[1] = 2
    /\ Len(srv.text) = 3
    /\ srv.text[1] = SchemaOf(live)

\* C23: a request changes neither the records of the collection nor the ledger
\* nor its store, and its handler makes no call other than the two relational
\* calls, EmbedQuery and the reading Milvus calls (statistics, load, search).
C23_FacadeReadsOnly ==
    [][/\ vdb' = vdb
       /\ ledger' = ledger
       /\ sqlite' = sqlite
       /\ \A i \in DOMAIN srv'.calls :
             srv'.calls[i] \in {"QueryContext", "ExecContext", "EmbedQuery",
                                "GetCollectionStats", "LoadCollection", "Await",
                                "Search"}]_vars

\* A search over a collection holding records has been answered.
C23_Witness ==
    /\ srv.tool = "get_can_use_table"
    /\ srv.outcome = "result"
    /\ srv.calls = <<"EmbedQuery", "GetCollectionStats", "Search">>
    /\ srv.text # << >>

\* ------------------------------------------------ C24
\* The program positions inside service.CreateCollection.
InCreateCollection == {"cc_create", "cc_index", "cc_await", "cc_load", "cc_loadawait"}

\* The order of the collection's states: created, index requested, index built,
\* load requested, loaded.
CreateOrder ==
    {<<"Absent", "Created">>, <<"Created", "IndexBuilding">>,
     <<"IndexBuilding", "Indexed">>, <<"Indexed", "Loading">>, <<"Loading", "Loaded">>}

\* C24: CreateCollection moves the collection from Absent through creation and
\* index building to Loaded, one step at a time and in that order; it returns
\* success only when the index build and the load have been awaited, so the
\* collection is Loaded; a failed step returns the error at once, and after it
\* no later step is issued and the collection stays where the failure left it.
C24_CreateInOrder ==
    [][/\ coll' # coll => /\ <<coll, coll'>> \in CreateOrder
                          /\ mpc \in InCreateCollection
       /\ (mpc \in InCreateCollection /\ mpc' = "recv") =>
             /\ mpc = "cc_loadawait"
             /\ coll' = "Loaded"
             /\ hist'.failed = "none"
       /\ (mpc \in InCreateCollection /\ mpc' \notin InCreateCollection \cup {"recv"}) =>
             /\ hist'.failed = "create"
             /\ coll' = coll
             /\ mpc' = OnStartupError
       /\ hist.failed = "create" =>
             /\ coll' = coll
             /\ mpc' \notin InCreateCollection \cup {"recv"}]_vars

\* CreateCollection has returned success for a collection that was absent.
C24_Witness ==
    /\ hist.check = "absent"
    /\ hist.created
    /\ hist.failed = "none"
    /\ coll = "Loaded"
    /\ mpc = "recv"

\* A step of CreateCollection failed after the collection was created.
C24_WitnessFailed ==
    /\ hist.failed = "create"
    /\ coll \in {"Created", "IndexBuilding", "Indexed", "Loading"}
    /\ mpc = "exited"

\* ------------------------------------------------ C25
\* C25: EmbedQuery called with the empty text fails with an invalid-input error
\* and makes no network call.
C25_EmptyTextRefused ==
    (ret.fn = "EmbedQuery" /\ ret.text = "") =>
        /\ ret.err = "invalid"
        /\ ret.calls = << >>

\* ------------------------------------------------ C26
\* C26: a vector returned by a successful EmbedQuery has exactly dim elements, so
\* has every vector handed to the insert of the collection; a 200 response whose
\* first embedding has another length, or no element, is an error.
C26_VectorHasDim ==
    /\ (ret.fn = "EmbedQuery" /\ ret.err = "none") => Len(ret.vector) = dim
    /\ ret.fn = "SaveToVDB" => Len(ret.vector) = dim
    /\ (/\ ret.fn = "EmbedQuery"
        /\ ret.calls = <<"POST">>
        /\ ret.response.sent /\ ret.response.read /\ ret.response.parses
        /\ ret.response.status = 200
        /\ Len(ret.response.data) > 0
        /\ Len(ret.response.data[1]) # dim) => ret.err # "none"

\* ------------------------------------------------ C27
\* C27: SaveToSQLite of names some or all of which are already recorded does not
\* fail when the store works, and afterwards the ledger holds exactly the names
\* it held before and the names of the call.
C27_InsertIdempotent ==
    (/\ ret.fn = "SaveToSQLite"
     /\ sqlite = "ok"
     /\ ret.stored
     /\ Range(ret.rows) \cap ret.before # {}) =>
        /\ ret.ok
        /\ ledger = ret.before \cup Range(ret.rows)

\* ------------------------------------------------ C28
\* C28: CheckRowExist of no name returns no name; CheckRowExist of the names of
\* the successful SaveToSQLite just before returns no name; in general it
\* returns exactly the names of the call that the ledger does not hold, and
\* leaves the ledger as it was.
C28_FilterUnseen ==
    ret.fn = "CheckRowExist" =>
        /\ ledger = ret.before
        /\ Len(ret.rows) = 0 => ret.res = << >>
        /\ (/\ ret.last.fn = "SaveToSQLite"
            /\ ret.last.ok
            /\ ret.last.rows = ret.rows
            /\ Len(ret.rows) > 0) => ret.res = << >>
        /\ Range(ret.res) = Range(ret.rows) \ ledger

\* ------------------------------------------------ C29
\* C29: when the ledger store cannot be opened or its table cannot be created,
\* the pass fails: it ends with the error and goes on to no further table.
C29_StoreFailureFailsPass ==
    sqlite = "err" => (upc = "returned" /\ hist.pass = "aborted")

\* ------------------------------------------------ C30
\* C30: when the lookup query of a call fails, CheckRowExist reports every name
\* of the call as not recorded, and a SaveToSQLite that fails records no name,
\* so that the names are still indexed by this or a later pass.
C30_FailedNameStaysUnseen ==
    /\ (ret.fn = "CheckRowExist" /\ sqlite = "ok" /\ ~ret.answered) =>
           Range(ret.rows) \subseteq Range(ret.res)
    /\ (ret.fn = "CheckRowExist" /\ sqlite = "ok" /\ ret.scanFailed # {}) =>
           ret.scanFailed \subseteq Range(ret.res)
    /\ (ret.fn = "SaveToSQLite" /\ ~ret.ok) => ledger = ret.before

\* ------------------------------------------------ C31
\* C31: whatever the interleaving of the goroutines that call the ledger, the
\* initialisation of the store runs at most once in a process; once it has ended
\* its error and its connection never change; every call that returns after it
\* gets that same error, and when there is none goes on with that one connection.
C31_InitialisedOnce ==
    [][/\ once'.runs <= 1
       /\ once'.opened <= 1
       /\ once.state = "done" =>
             /\ once'.state = "done"
             /\ once'.err = once.err
             /\ once'.db = once.db
             /\ once'.runs = once.runs
       /\ \A c \in 1..Callers :
             (once.pc[c] = "ret" /\ once'.pc[c] = "idle") =>
                 /\ once.state = "done"
                 /\ once'.got[c] = once.err
                 /\ once.err = "none" => (once.db # 0 /\ once'.used[c] = once.db)]_vars

\* Two goroutines have returned from a successful initialisation, one of them
\* having waited for the other or come later.
C31_Witness ==
    /\ once.runs = 1
    /\ \A c \in 1..Callers : once.got[c] = "none" /\ once.used[c] = once.db
    /\ once.db # 0

\* Two goroutines have returned the error of the one failed initialisation.
C31_WitnessFailed ==
    /\ once.runs = 1
    /\ once.err \in {"stat", "open", "ping", "table"}
    /\ \A c \in 1..Callers : once.got[c] = once.err

\* ------------------------------------------------ C32
\* SimilaritySearch was called by the request handled last.
SearchRan ==
    /\ srv.tool = "get_can_use_table"
    /\ Len(srv.calls) >= 2
    /\ srv.calls[2] = "GetCollectionStats"

\* The collection holds no record.
NoRows == \A t \in Tables : vdb[t] = 0

\* C32: when the statistics report no row, SimilaritySearch issues the search only
\* after LoadCollection and the await of the load, both without error; when
\* GetCollectionStats, LoadCollection or the await fails, no search is issued and
\* the request answers with the error.
C32_LoadBeforeSearch ==
    SearchRan =>
        /\ (NoRows /\ "Search" \in Range(srv.calls)) =>
              /\ srv.calls = <<"EmbedQuery", "GetCollectionStats", "LoadCollection",
                               "Await", "Search">>
              /\ srv.db.fail \notin {"stats", "load", "await"}
        /\ (\/ srv.db.fail = "stats"
            \/ NoRows /\ srv.db.fail \in {"load", "await"}) =>
              /\ "Search" \notin Range(srv.calls)
              /\ srv.outcome = "error"
              /\ srv.err # ""

\* A request on a collection without rows was answered after load and search.
C32_Witness ==
    /\ SearchRan
    /\ NoRows
    /\ srv.outcome = "result"
    /\ "Search" \in Range(srv.calls)

\* A request on a collection without rows whose load failed.
C32_WitnessFailed ==
    /\ SearchRan
    /\ NoRows
    /\ srv.db.fail = "await"
    /\ srv.calls = <<"EmbedQuery", "GetCollectionStats", "LoadCollection", "Await">>

\* ------------------------------------------------ C35
\* The program positions of the startup indexing pass: the dispatch loop and the
\* wait for the workers.
InStartupPass == {"recv", "acquire", "wait"}

\* C35: when the root context is cancelled while the startup indexing pass runs,
\* initVectorDB does not return success and the server is not started, at
\* whatever point of the pass the cancellation comes.
C35_CancelledPassNeverServes ==
    [][(ctxDone /\ mpc \in InStartupPass) => mpc' # "serving"]_vars

\* ------------------------------------------------ C33
\* C33: whatever starts, interrupted starts and restarts came before, when the
\* server begins to accept requests the collection holds a record of every table
\* of the source whose embedding or insert did not fail in this start.
C33_PopulatedWhenServing ==
    [][(mpc # "serving" /\ mpc' = "serving") =>
          \A t \in 1..live :
              \/ vdb'[t] > 0
              \/ t \in hist'.embedFailed
              \/ t \in hist'.insertCalls \ hist'.insertOK]_vars

\* ------------------------------------------------ C34
\* C34: whatever starts and restarts came before, also one that failed inside
\* CreateCollection, when the server accepts requests the collection has its
\* index built and is Loaded.
C34_LoadedWhenServing == mpc = "serving" => coll = "Loaded"

\* ------------------------------------------------ C38
\* C38: whatever startup passes, periodic passes and restarts came before, the
\* collection holds at most one record of the schema of a table.
C38_OneRecordPerTable == \A t \in Tables : vdb[t] <= 1

\* ------------------------------------------------ C36
\* C36: every periodic pass that has begun ends, whatever the number of tables,
\* also when there are more than the schema channel holds.
C36_PassTerminates == (hist.pass = "running") ~> (hist.pass \in {"complete", "aborted"})

C37_WitnessComplete ==
    /\ live > maxWorkers
    /\ mpc = "serving"
    /\ hist.insertOK = 1..live
    /\ Running = {}

====
